---- MODULE Spec2Model ----
(***************************************************************************)
(* Superset dashboard source: SupersetAPISource (api_source.py) and        *)
(* SupersetDBSource (db_source.py).  One run: prepare() fills the chart    *)
(* cache all_charts, get_dashboards_list() streams the dashboards, and for *)
(* each dashboard the stages yield_dashboard_chart, yield_datamodel,       *)
(* yield_dashboard and yield_dashboard_lineage run in that order.          *)
(*                                                                         *)
(* Python values: None is the string "None" for optional strings, and a    *)
(* record [present |-> FALSE] for an optional object.  A call's outcome is *)
(* a record [exc, val]: exc is "none" or the name of the exception raised. *)
(***************************************************************************)
EXTENDS Integers, Sequences, FiniteSets, TLC

VARIABLES
    variant,          \* "api" (SupersetAPISource) or "db" (SupersetDBSource)
    cfg,              \* source_config: includeDataModels, dbServiceNames
    backendCharts,    \* the charts the backend lists, in listing order
    backendDashboards,\* the number of dashboards the backend lists
    total_dashboards, \* local of get_dashboards_list: fetch_total_dashboards()
    all_charts,       \* self.all_charts: chart id -> chart record
    stage,            \* position of the run
    current_page,     \* local of the running pagination loop
    total_charts,     \* local of prepare: fetch_total_charts()
    pageLog,          \* page numbers fetched by the running pagination loop
    dashPage,         \* dashboards of the fetched page not yet yielded
    yielded,          \* number of dashboards yielded so far
    dash,             \* dashboard_details of the dashboard being processed
    ctx,              \* self.context: charts, dataModels, dashboard
    emitted,          \* requests yielded for the current dashboard, by stage
    status,           \* self.status notifications of the current dashboard
    fetchLog,         \* backend calls made by the current stage
    raised,           \* the exception that escaped a stage and ended the run, if any
    probe             \* inputs and results of a function applied on its own

vars == <<variant, cfg, backendCharts, backendDashboards, total_dashboards, all_charts, stage,
          current_page, total_charts, pageLog, dashPage, yielded, dash, ctx,
          emitted, status, fetchLog, raised, probe>>

None == "None"
NoRecord == [present |-> FALSE]

\* ---------------------------------------------------------------- bounds
MaxCharts == 2        \* charts the backend lists in a full run
MaxDashboards == 1    \* dashboards the backend lists in a full run
MaxDashCharts == 2    \* chart ids one dashboard references
MaxTotal == 51        \* total count served by a pagination loop on its own
MaxFields == 3        \* fields of a datasource handed to get_column_info
MaxCalls == 2         \* calls of the resolver with one input

page_size == 25

Variants == {"api", "db"}

\* ------------------------------------------------------ general helpers
Range(s) == {s[i] : i \in 1..Len(s)}

Min(a, b) == IF a < b THEN a ELSE b

SeqsUpTo(S, n) == UNION {[1..k -> S] : k \in 0..n}

Ok(v) == [exc |-> "none", val |-> v]

Raise(e) == [exc |-> e, val |-> None]

\* ------------------------------------------------------- backend records
\* The kinds of chart the backend holds.  A kind fixes the chart's datasource
\* reference (api) or its embedded table reference (db).
ChartKinds == {"orders", "tmp", "noname", "broken", "nods"}

\* chart record of the API listing: fetch_charts(...).result[index]
ApiChart(id, kind) ==
    [present |-> TRUE, id |-> id,
     datasource_id |-> CASE kind = "orders"  -> "10"
                         [] kind = "tmp"     -> "11"
                         [] kind = "noname"  -> "12"
                         [] kind = "broken"  -> "13"
                         [] OTHER            -> None,
     table_name |-> None, table_schema |-> None, sqlalchemy_uri |-> None]

\* chart row of FETCH_ALL_CHARTS: FetchChart(**chart)
DbChart(id, kind) ==
    [present |-> TRUE, id |-> id,
     datasource_id |-> CASE kind = "orders"  -> "10"
                         [] kind = "tmp"     -> "11"
                         [] kind = "broken"  -> "13"
                         [] OTHER            -> None,
     table_name |-> CASE kind = "orders"  -> "orders"
                      [] kind = "tmp"     -> "tmp_orders"
                      [] kind = "noname"  -> "events"
                      [] kind = "broken"  -> "locked"
                      [] OTHER            -> None,
     table_schema |-> IF kind = "nods" THEN None ELSE "public",
     sqlalchemy_uri |-> CASE kind \in {"orders", "tmp"} -> "mysql://host/sales"
                          [] kind = "broken" -> "not a url"
                          [] OTHER           -> None]

ChartRecord(v, id, kind) == IF v = "api" THEN ApiChart(id, kind) ELSE DbChart(id, kind)

\* the backend's chart listing for a sequence of kinds: chart i has id i
ChartListing(v, kinds) == [i \in 1..Len(kinds) |-> ChartRecord(v, i, kinds[i])]

\* client.fetch_total_charts()
fetch_total_charts(charts) == Len(charts)

\* client.fetch_charts(current_page, page_size): ids and result are parallel
fetch_charts(charts, page, size) ==
    LET first == page * size + 1
        last  == Min(Len(charts), (page + 1) * size)
    IN [ids    |-> [i \in 1..(IF last < first THEN 0 ELSE last - first + 1) |-> charts[first + i - 1].id],
        result |-> [i \in 1..(IF last < first THEN 0 ELSE last - first + 1) |-> charts[first + i - 1]]]

\* ------------------------------------------------------------- prepare
\* api_source.py 66-67: for index in range(len(charts.result)):
\*                          self.all_charts[charts.ids[index]] = charts.result[index]
RECURSIVE StorePage(_, _, _)
StorePage(cache, charts, index) ==
    IF index > Len(charts.result) THEN cache
    ELSE StorePage([k \in DOMAIN cache \cup {charts.ids[index]} |->
                        IF k = charts.ids[index] THEN charts.result[index] ELSE cache[k]],
                   charts, index + 1)

\* db_source.py 76-78: for chart in charts: self.all_charts[chart_detail.id] = chart_detail
RECURSIVE StoreRows(_, _, _)
StoreRows(cache, rows, index) ==
    IF index > Len(rows) THEN cache
    ELSE StoreRows([k \in DOMAIN cache \cup {rows[index].id} |->
                        IF k = rows[index].id THEN rows[index] ELSE cache[k]],
                   rows, index + 1)

\* LoopContinues with a strict comparison: no page is asked for at an offset equal
\* to the total
LoopContinuesStrict(page, total) == page * page_size < total

\* LoopContinues testing the end of the page instead of its start
LoopContinuesFullPagesOnly(page, total) == (page + 1) * page_size <= total

\* the while condition of both pagination loops
LoopContinues(page, total) == page * page_size <= total

EmptyEmitted == [charts |-> <<>>, dataModels |-> <<>>, dashboard |-> <<>>, lineage |-> <<>>]
EmptyStatus == [filtered |-> <<>>, failed |-> <<>>, scanned |-> <<>>]
EmptyContext == [charts |-> <<>>, dataModels |-> <<>>, dashboard |-> NoRecord]
NoProbe == [fn |-> "none"]
NoRaise == [exc |-> "none", stage |-> "none"]

\* state after construction, before prepare: all_charts = {}
InitCommon ==
    /\ variant \in Variants
    /\ all_charts = <<>>
    /\ stage = "start"
    /\ current_page = 0
    /\ total_charts = 0
    /\ total_dashboards = 0
    /\ pageLog = <<>>
    /\ dashPage = <<>>
    /\ yielded = 0
    /\ dash = NoRecord
    /\ ctx = EmptyContext
    /\ emitted = EmptyEmitted
    /\ status = EmptyStatus
    /\ fetchLog = <<>>
    /\ raised = NoRaise

\* SupersetAPISource.prepare, lines 59-61
PrepareBegin ==
    /\ variant = "api" /\ stage = "start"
    /\ current_page' = 0
    /\ total_charts' = fetch_total_charts(backendCharts)
    /\ pageLog' = <<>>
    /\ stage' = "prepare"
    /\ UNCHANGED <<variant, cfg, backendCharts, backendDashboards, total_dashboards, all_charts, dashPage,
                   yielded, dash, ctx, emitted, status, fetchLog, raised, probe>>

\* SupersetAPISource.prepare, one iteration of the while loop, lines 62-67
PrepareFetchPage ==
    /\ variant = "api" /\ stage = "prepare"
    /\ LoopContinues(current_page, total_charts)
    /\ LET charts == fetch_charts(backendCharts, current_page, page_size)
       IN all_charts' = StorePage(all_charts, charts, 1)
    /\ pageLog' = Append(pageLog, current_page)
    /\ current_page' = current_page + 1
    /\ UNCHANGED <<variant, cfg, backendCharts, backendDashboards, total_dashboards, stage, total_charts,
                   dashPage, yielded, dash, ctx, emitted, status, fetchLog, raised, probe>>

\* SupersetAPISource.prepare, the while condition fails: prepare returns
PrepareEnd ==
    /\ variant = "api" /\ stage = "prepare"
    /\ ~LoopContinues(current_page, total_charts)
    /\ stage' = "prepared"
    /\ UNCHANGED <<variant, cfg, backendCharts, backendDashboards, total_dashboards, all_charts, current_page,
                   total_charts, pageLog, dashPage, yielded, dash, ctx, emitted, status,
                   fetchLog, raised, probe>>

\* SupersetDBSource.prepare, lines 75-78
PrepareDB ==
    /\ variant = "db" /\ stage = "start"
    /\ all_charts' = StoreRows(all_charts, backendCharts, 1)
    /\ stage' = "prepared"
    /\ UNCHANGED <<variant, cfg, backendCharts, backendDashboards, total_dashboards, current_page,
                   total_charts, pageLog, dashPage, yielded, dash, ctx, emitted, status,
                   fetchLog, raised, probe>>

\* ---------------------------------------------- collaborators of the run
\* self.context.dashboard_service.fullyQualifiedName.__root__
DashboardServiceName == "superset_prod"

\* source_config.dataModelFilterPattern: the configured exclude pattern
dataModelFilterPattern == [excludes |-> {"tmp_orders"}]

\* metadata.utils.filters.filter_by_datamodel: TRUE when the name is to be filtered out
filter_by_datamodel(pattern, name) == name \in pattern.excludes

\* Python truthiness of an optional string
Truthy(s) == s # None /\ s # ""

\* fields of the datasources the backend holds
OrdersColumns ==
    << [id |-> "1", type |-> "VARCHAR(45)", column_name |-> "customer", description |-> None],
       [id |-> "2", type |-> "geo??",       column_name |-> "region",   description |-> None],
       [id |-> "3", type |-> None,          column_name |-> "total",    description |-> None] >>

EventsColumns ==
    << [id |-> "4", type |-> "INT", column_name |-> "event_id", description |-> None] >>

\* client.fetch_datasource(datasource_id) of the API client: the record, no record,
\* or a failed request
fetch_datasource(datasource_id) ==
    CASE datasource_id = "10" ->
           Ok([present |-> TRUE, id |-> "10",
               result |-> [table_name |-> "orders", table_schema |-> "public",
                           database |-> [id |-> "100"], columns |-> OrdersColumns]])
      [] datasource_id = "11" ->
           Ok([present |-> TRUE, id |-> "11",
               result |-> [table_name |-> "tmp_orders", table_schema |-> "public",
                           database |-> [id |-> "100"], columns |-> OrdersColumns]])
      [] datasource_id = "12" ->
           Ok([present |-> TRUE, id |-> None,
               result |-> [table_name |-> "events", table_schema |-> "public",
                           database |-> [id |-> "101"], columns |-> EventsColumns]])
      [] datasource_id = "13" -> Raise("ConnectionError")
      [] datasource_id = "15" ->
           Ok([present |-> TRUE, id |-> "15",
               result |-> [table_name |-> "audit", table_schema |-> "public",
                           database |-> [id |-> "102"], columns |-> <<>>]])
      [] OTHER -> Ok(NoRecord)

\* client.fetch_database(database_id) of the API client
fetch_database(database_id) ==
    CASE database_id = "100" ->
           Ok([present |-> TRUE, id |-> "100",
               result |-> [parameters |-> [present |-> TRUE, database |-> "sales"]]])
      [] database_id = "101" ->
           Ok([present |-> TRUE, id |-> "101", result |-> [parameters |-> NoRecord]])
      [] OTHER -> Ok(NoRecord)

\* rows of the FETCH_COLUMN query, by lower-cased table name
ColumnRows(table_name) ==
    CASE table_name \in {"orders", "tmp_orders"} -> Ok(OrdersColumns)
      [] table_name = "events" -> Ok(EventsColumns)
      [] table_name = "locked" -> Raise("OperationalError")
      [] OTHER -> Ok(<<>>)

\* str.lower() on the table names of the model, which are lower case already
Lower(s) == s

\* SupersetDBSource.get_column_list
get_column_list(table_name) ==
    IF table_name = None THEN Raise("AttributeError")   \* None.lower()
    ELSE ColumnRows(Lower(table_name))

\* metadata.get_by_name(entity=DatabaseService, fqn=db_service_name)
DbServiceEntity(name) ==
    [name |-> name, databaseName |-> IF name = "pg_dw" THEN "dw" ELSE None]

DbServiceNames == {"mysql_prod", "pg_dw"}

\* metadata.utils.helpers.get_database_name_for_lineage: the override declared by
\* the service wins over the default reported by the backend
get_database_name_for_lineage(db_service_entity, default_db_name) ==
    IF db_service_entity.databaseName # None THEN db_service_entity.databaseName
    ELSE default_db_name

\* fqn.build(entity_type=Table, ...): no FQN when a part of the name is missing
fqn_build_table(service_name, database_name, schema_name, table_name) ==
    IF database_name = None \/ schema_name = None \/ table_name = None THEN None
    ELSE service_name \o "." \o database_name \o "." \o schema_name \o "." \o table_name

\* fqn.build(entity_type=Chart, service_name, chart_name)
fqn_build_chart(service_name, chart_name) == service_name \o "." \o chart_name

\* sqlalchemy.engine.url.make_url on the connection strings of the model
make_url(sqa_str) ==
    CASE sqa_str = "mysql://host/sales" -> Ok([present |-> TRUE, database |-> "sales"])
      [] sqa_str = "mysql://host"       -> Ok([present |-> TRUE, database |-> None])
      [] OTHER                          -> Raise("ArgumentError")

\* ----------------------------------------------------- datasource resolver
\* result of a resolver call: the exception that escaped, the value returned, and
\* the calls it made to its collaborators
Resolved(exc, val, log) == [exc |-> exc, val |-> val, log |-> log]

\* the except clause of SupersetAPISource._get_datasource_fqn, line 166
ApiResolverCatches(exc) == exc = "KeyError"

\* SupersetAPISource._get_datasource_fqn, lines 137-172
ApiGetDatasourceFqn(datasource_id, db_service_entity) ==
    LET fetched == fetch_datasource(datasource_id)
        log1 == << <<"fetch_datasource", datasource_id>> >>
    IN
    IF fetched.exc # "none"
    THEN IF ApiResolverCatches(fetched.exc) THEN Resolved("none", None, log1)
         ELSE Resolved(fetched.exc, None, log1)
    ELSE LET datasource_json == fetched.val IN
    IF ~datasource_json.present THEN Resolved("none", None, log1)
    ELSE LET got == fetch_database(datasource_json.result.database.id)
             log2 == Append(log1, <<"fetch_database", datasource_json.result.database.id>>)
         IN
    IF got.exc # "none"
    THEN IF ApiResolverCatches(got.exc) THEN Resolved("none", None, log2)
         ELSE Resolved(got.exc, None, log2)
    ELSE LET database_json == got.val IN
    \* database_json.result.parameters on None
    IF ~database_json.present
    THEN IF ApiResolverCatches("AttributeError") THEN Resolved("none", None, log2)
         ELSE Resolved("AttributeError", None, log2)
    ELSE LET default_database_name ==
                 IF database_json.result.parameters.present
                 THEN database_json.result.parameters.database ELSE None
             database_name ==
                 get_database_name_for_lineage(db_service_entity, default_database_name)
         IN Resolved("none",
                     fqn_build_table(db_service_entity.name, database_name,
                                     datasource_json.result.table_schema,
                                     datasource_json.result.table_name),
                     Append(log2, <<"fqn.build", datasource_json.result.table_name, database_name>>))

\* GetDatabaseName returning the default parsed from the connection string whatever
\* the service declares
GetDatabaseNameDefaultOnly(sqa_str, db_service_entity) ==
    IF Truthy(sqa_str)
    THEN LET sqa_url == make_url(sqa_str) IN
         IF sqa_url.exc # "none" THEN Raise(sqa_url.exc)
         ELSE Ok(IF sqa_url.val.present THEN sqa_url.val.database ELSE None)
    ELSE Ok(None)

\* SupersetDBSource._get_database_name, lines 161-168
GetDatabaseName(sqa_str, db_service_entity) ==
    IF Truthy(sqa_str)
    THEN LET sqa_url == make_url(sqa_str) IN
         IF sqa_url.exc # "none" THEN Raise(sqa_url.exc)
         ELSE Ok(get_database_name_for_lineage(
                     db_service_entity,
                     IF sqa_url.val.present THEN sqa_url.val.database ELSE None))
    ELSE Ok(get_database_name_for_lineage(db_service_entity, None))

\* the except clause of SupersetDBSource._get_datasource_fqn, line 185
DbResolverCatches(exc) == TRUE

\* DbGetDatasourceFqn remembering that it was asked: it answers None to a call
\* that follows an earlier one
DbGetDatasourceFqnOnce(chart_json, db_service_entity) ==
    LET database_name == GetDatabaseName(chart_json.sqlalchemy_uri, db_service_entity) IN
    IF (probe.fn = "resolver" /\ probe.results # <<>>) \/ database_name.exc # "none"
    THEN Resolved("none", None, <<>>)
    ELSE Resolved("none",
                  fqn_build_table(db_service_entity.name, database_name.val,
                                  chart_json.table_schema, chart_json.table_name),
                  << <<"fqn.build", chart_json.table_name, database_name.val>> >>)

\* SupersetDBSource._get_datasource_fqn, lines 170-190
DbGetDatasourceFqn(chart_json, db_service_entity) ==
    LET database_name == GetDatabaseName(chart_json.sqlalchemy_uri, db_service_entity) IN
    IF database_name.exc # "none"
    THEN IF DbResolverCatches(database_name.exc) THEN Resolved("none", None, <<>>)
         ELSE Resolved(database_name.exc, None, <<>>)
    ELSE Resolved("none",
                  fqn_build_table(db_service_entity.name, database_name.val,
                                  chart_json.table_schema, chart_json.table_name),
                  << <<"fqn.build", chart_json.table_name, database_name.val>> >>)

\* ApiFqnForLineage without the test of chart_json.datasource_id
ApiFqnForLineageUnguarded(chart_json, db_service_entity) ==
    ApiGetDatasourceFqn(chart_json.datasource_id, db_service_entity)

\* SupersetAPISource._get_datasource_fqn_for_lineage, lines 106-111
ApiFqnForLineage(chart_json, db_service_entity) ==
    IF Truthy(chart_json.datasource_id)
    THEN ApiGetDatasourceFqn(chart_json.datasource_id, db_service_entity)
    ELSE Resolved("none", None, <<>>)

\* SupersetDBSource._get_datasource_fqn_for_lineage, lines 131-136
DbFqnForLineage(chart_json, db_service_entity) ==
    IF Truthy(chart_json.table_name)
    THEN DbGetDatasourceFqn(chart_json, db_service_entity)
    ELSE Resolved("none", None, <<>>)

GetDatasourceFqnForLineage(v, chart_json, db_service_entity) ==
    IF v = "api" THEN ApiFqnForLineage(chart_json, db_service_entity)
    ELSE DbFqnForLineage(chart_json, db_service_entity)

\* --------------------------------------------------------- chart cache
\* self.all_charts.get(chart_id)
CacheGet(cache, chart_id) == IF chart_id \in DOMAIN cache THEN cache[chart_id] ELSE NoRecord

\* CacheAfterLookups for a lookup that removes what it finds: all_charts.pop(chart_id, None)
CacheAfterPops(cache, chart_ids) ==
    [k \in DOMAIN cache \ {chart_ids[i] : i \in 1..Len(chart_ids)} |-> cache[k]]

\* the cache after a stage looked up chart_ids with self.all_charts.get(chart_id):
\* dict.get leaves the dictionary as it is
CacheAfterLookups(cache, chart_ids) == cache

\* SupersetSourceMixin._get_charts_of_dashboard(dashboard_details)
GetChartsOfDashboard(dashboard_details) == dashboard_details.charts

\* ------------------------------------------------------ get_column_info
\* ColumnTypeParser._parse_datatype_string: type-kind and length of a type string;
\* an unknown, unparsable or absent string gives the catch-all kind and no length
ParseDatatypeString(data_type) ==
    CASE data_type = "VARCHAR(45)" -> [dataType |-> "VARCHAR", dataLength |-> "45"]
      [] data_type = "INT"         -> [dataType |-> "INT", dataLength |-> None]
      [] OTHER                     -> [dataType |-> "UNKNOWN", dataLength |-> None]

\* Column(**parsed_fields): name and dataType are required
Column(parsed_fields) ==
    IF parsed_fields.name = None \/ parsed_fields.dataType = None
    THEN Raise("ValidationError")
    ELSE Ok(parsed_fields)

\* ColumnOfField with a type parser that raises on an absent type string
ColumnOfFieldStrict(field) ==
    IF ~Truthy(field.type) THEN Raise("AttributeError")
    ELSE Column([dataTypeDisplay |-> field.type,
                 dataType |-> ParseDatatypeString(field.type).dataType,
                 name |-> field.id,
                 displayName |-> field.column_name,
                 description |-> field.description,
                 dataLength |-> ParseDatatypeString(field.type).dataLength])

\* get_column_info, the body of the try of one field, api_source.py 222-238
ColumnOfField(field) ==
    Column([dataTypeDisplay |-> field.type,
            dataType |-> ParseDatatypeString(IF Truthy(field.type) THEN field.type ELSE None).dataType,
            name |-> field.id,
            displayName |-> field.column_name,
            description |-> field.description,
            dataLength |-> ParseDatatypeString(IF Truthy(field.type) THEN field.type ELSE None).dataLength])

\* get_column_info, one iteration of the for loop with its try/except, api_source.py 220-241
ColumnStep(datasource_columns, field) ==
    LET built == ColumnOfField(field) IN
    IF built.exc = "none" THEN Append(datasource_columns, built.val)
    ELSE datasource_columns          \* logged, the field is left out

\* get_column_info, api_source.py 212-242 and db_source.py 230-259
RECURSIVE ColumnLoop(_, _, _)
ColumnLoop(datasource_columns, data_source, i) ==
    IF i > Len(data_source) THEN datasource_columns
    ELSE ColumnLoop(ColumnStep(datasource_columns, data_source[i]), data_source, i + 1)

get_column_info(data_source) == ColumnLoop(<<>>, data_source, 1)

\* ------------------------------------------------ yield_dashboard_chart
\* CreateChartRequest(name=chart_json.id, ..., service=...)
CreateChartRequest(chart_json) ==
    [name |-> ToString(chart_json.id), service |-> DashboardServiceName]

\* ChartLoop leaving the loop at the first chart id the cache does not hold
\* (break in place of continue)
RECURSIVE ChartLoopStopsAtMiss(_, _, _)
ChartLoopStopsAtMiss(cache, chart_ids, i) ==
    IF i > Len(chart_ids) THEN <<>>
    ELSE LET chart_json == CacheGet(cache, chart_ids[i]) IN
         IF ~chart_json.present THEN <<>>
         ELSE <<CreateChartRequest(chart_json)>> \o ChartLoopStopsAtMiss(cache, chart_ids, i + 1)

\* yield_dashboard_chart, api_source.py 113-135 and db_source.py 138-159
RECURSIVE ChartLoop(_, _, _)
ChartLoop(cache, chart_ids, i) ==
    IF i > Len(chart_ids) THEN <<>>
    ELSE LET chart_json == CacheGet(cache, chart_ids[i]) IN
         IF ~chart_json.present THEN ChartLoop(cache, chart_ids, i + 1)   \* warning, continue
         ELSE <<CreateChartRequest(chart_json)>> \o ChartLoop(cache, chart_ids, i + 1)

\* ------------------------------------------------------ yield_dashboard
\* DashboardCharts built from the raw chart ids of the dashboard being processed
\* instead of the charts of the context
DashboardChartsFromIds(context_charts) ==
    [i \in 1..Len(dash.charts) |->
        fqn_build_chart(DashboardServiceName, ToString(dash.charts[i]))]

\* the charts argument of CreateDashboardRequest, api_source.py 92-100
DashboardCharts(context_charts) ==
    [i \in 1..Len(context_charts) |->
        fqn_build_chart(DashboardServiceName, context_charts[i].name)]

\* CreateDashboardRequest of yield_dashboard, api_source.py 88-102
DashboardRequest(dashboard_details, context_charts) ==
    [name |-> ToString(dashboard_details.id),
     charts |-> DashboardCharts(context_charts),
     service |-> DashboardServiceName]

\* ------------------------------------------------------ yield_datamodel
\* what one call of yield_datamodel has done so far: requests yielded, status
\* notifications, the exception that escaped it, backend calls
EmptyRun == [out |-> <<>>, filtered |-> <<>>, failed |-> <<>>, scanned |-> <<>>,
             exc |-> "none", log |-> <<>>]

\* CreateDashboardDataModelRequest(name=..., displayName=..., ...): name is required
CreateDashboardDataModelRequest(name, displayName, columns) ==
    IF name = None THEN Raise("ValidationError")
    ELSE Ok([name |-> name, displayName |-> displayName,
             service |-> DashboardServiceName, columns |-> columns,
             dataModelType |-> "SupersetDataModel"])

\* the filter check of yield_datamodel, api_source.py 185-189: the name is reported
\* to the status sink, and the loop body goes on
DataModelFilter(run, table_name) ==
    IF filter_by_datamodel(dataModelFilterPattern, table_name)
    THEN [run EXCEPT !.filtered = Append(@, table_name)]
    ELSE run

\* DataModelExcept without the report to the status sink
DataModelExceptSilent(run, name, table_name, exc) == run

\* the except clause of yield_datamodel, api_source.py 202-210
DataModelExcept(run, name, table_name, exc) ==
    [run EXCEPT !.failed = Append(@, [name |-> name, table_name |-> table_name, error |-> exc])]

\* the try/except of yield_datamodel, api_source.py 190-210
DataModelTry(run, name, table_name, data_source) ==
    LET data_model_request ==
            CreateDashboardDataModelRequest(name, table_name, get_column_info(data_source))
    IN IF data_model_request.exc = "none"
       THEN [run EXCEPT !.out = Append(@, data_model_request.val),
                        !.scanned = Append(@, data_model_request.val.displayName)]
       ELSE DataModelExcept(run, name, table_name, data_model_request.exc)

\* SupersetAPISource.yield_datamodel, the loop body for one chart id, lines 180-210
ApiDataModelStep(run, cache, chart_id) ==
    LET chart_json == CacheGet(cache, chart_id) IN
    IF ~chart_json.present THEN run
    ELSE LET fetched == fetch_datasource(chart_json.datasource_id)
             run1 == [run EXCEPT !.log = Append(@, <<"fetch_datasource", chart_json.datasource_id>>)]
         IN
    IF fetched.exc # "none" THEN [run1 EXCEPT !.exc = fetched.exc]
    \* datasource_json.result.table_name on no record
    ELSE IF ~fetched.val.present THEN [run1 EXCEPT !.exc = "AttributeError"]
    ELSE LET datasource_json == fetched.val IN
         DataModelTry(DataModelFilter(run1, datasource_json.result.table_name),
                      datasource_json.id, datasource_json.result.table_name,
                      datasource_json.result.columns)

\* SupersetDBSource.yield_datamodel, the loop body for one chart id, lines 198-228
DbDataModelStep(run, cache, chart_id) ==
    LET chart_json == CacheGet(cache, chart_id) IN
    IF ~chart_json.present THEN run
    ELSE LET run1 == DataModelFilter(run, chart_json.table_name)
             col_names == get_column_list(chart_json.table_name)
             run2 == [run1 EXCEPT !.log = Append(@, <<"get_column_list", chart_json.table_name>>)]
         IN
    IF col_names.exc # "none" THEN [run2 EXCEPT !.exc = col_names.exc]
    ELSE DataModelTry(run2, chart_json.datasource_id, chart_json.table_name, col_names.val)

\* yield_datamodel, the for loop: an exception that escapes the body ends the generator
RECURSIVE DataModelLoop(_, _, _, _, _)
DataModelLoop(v, run, cache, chart_ids, i) ==
    IF i > Len(chart_ids) \/ run.exc # "none" THEN run
    ELSE DataModelLoop(v,
                       IF v = "api" THEN ApiDataModelStep(run, cache, chart_ids[i])
                       ELSE DbDataModelStep(run, cache, chart_ids[i]),
                       cache, chart_ids, i + 1)

\* yield_datamodel, api_source.py 174-210 and db_source.py 192-228
YieldDataModel(v, config, cache, dashboard_details) ==
    IF config.includeDataModels
    THEN DataModelLoop(v, EmptyRun, cache, GetChartsOfDashboard(dashboard_details), 1)
    ELSE EmptyRun

\* ---------------------------------------------- yield_dashboard_lineage
\* DashboardServiceSource._get_add_lineage_request(to_entity, from_entity)
GetAddLineageRequest(to_entity, from_entity, from_type) ==
    IF ~to_entity.present \/ from_entity.id = None THEN Raise("AttributeError")
    ELSE Ok([fromType |-> from_type, fromEntity |-> from_entity.id,
             toType |-> "dashboard", toEntity |-> to_entity.id])

\* yield_datamodel_dashboard_lineage, one iteration with its try/except,
\* api_source.py 262-271
DataModelLineageStep(edges, context, datamodel) ==
    LET request == GetAddLineageRequest(context.dashboard, datamodel, "dashboardDataModel") IN
    IF request.exc = "none" THEN Append(edges, request.val)
    ELSE edges                       \* logged, the loop goes on

\* yield_datamodel_dashboard_lineage, api_source.py 255-271 and db_source.py 272-288
RECURSIVE DataModelLineageLoop(_, _, _)
DataModelLineageLoop(edges, context, i) ==
    IF i > Len(context.dataModels) THEN edges
    ELSE DataModelLineageLoop(DataModelLineageStep(edges, context, context.dataModels[i]),
                              context, i + 1)

YieldDataModelDashboardLineage(context) == DataModelLineageLoop(<<>>, context, 1)

\* what one call of yield_dashboard_lineage has done so far
EmptyLineage == [out |-> <<>>, exc |-> "none", log |-> <<>>]

\* SupersetSourceMixin.yield_dashboard_lineage_details, one chart of the dashboard:
\* an edge from the resolved table to the dashboard, none when there is no FQN
LineageDetailsStep(v, run, cache, context, db_service_name, chart_id) ==
    LET chart_json == CacheGet(cache, chart_id) IN
    IF ~chart_json.present THEN run
    ELSE LET resolved == GetDatasourceFqnForLineage(v, chart_json, DbServiceEntity(db_service_name))
             run1 == [run EXCEPT !.log = Append(@, [chart |-> chart_id,
                                                     service |-> db_service_name,
                                                     calls |-> resolved.log,
                                                     fqn |-> resolved.val,
                                                     exc |-> resolved.exc])]
         IN
    IF resolved.exc # "none" THEN [run1 EXCEPT !.exc = resolved.exc]
    ELSE IF resolved.val = None THEN run1
    ELSE [run1 EXCEPT !.out = Append(@, [fromType |-> "table", fromEntity |-> resolved.val,
                                         toType |-> "dashboard",
                                         toEntity |-> context.dashboard.id])]

\* SupersetSourceMixin.yield_dashboard_lineage_details(dashboard_details, db_service_name)
RECURSIVE LineageDetailsLoop(_, _, _, _, _, _, _)
LineageDetailsLoop(v, run, cache, context, db_service_name, chart_ids, i) ==
    IF i > Len(chart_ids) \/ run.exc # "none" THEN run
    ELSE LineageDetailsLoop(v,
                            LineageDetailsStep(v, run, cache, context, db_service_name, chart_ids[i]),
                            cache, context, db_service_name, chart_ids, i + 1)

\* yield_dashboard_lineage, the loop over source_config.dbServiceNames,
\* api_source.py 249-252
RECURSIVE ServiceLoop(_, _, _, _, _, _, _)
ServiceLoop(v, run, cache, context, db_service_names, chart_ids, i) ==
    IF i > Len(db_service_names) \/ run.exc # "none" THEN run
    ELSE ServiceLoop(v,
                     LineageDetailsLoop(v, run, cache, context, db_service_names[i], chart_ids, 1),
                     cache, context, db_service_names, chart_ids, i + 1)

\* YieldDashboardLineage with the two passes in the other order
YieldDashboardLineageTablesFirst(v, config, cache, context, dashboard_details) ==
    LET run == ServiceLoop(v, EmptyLineage, cache, context, config.dbServiceNames,
                           GetChartsOfDashboard(dashboard_details), 1)
    IN [run EXCEPT !.out = @ \o YieldDataModelDashboardLineage(context)]

\* yield_dashboard_lineage, api_source.py 244-252 and db_source.py 261-269: the
\* data-model edges first, then the table edges of each configured service
YieldDashboardLineage(v, config, cache, context, dashboard_details) ==
    ServiceLoop(v, [EmptyLineage EXCEPT !.out = YieldDataModelDashboardLineage(context)],
                cache, context, config.dbServiceNames,
                GetChartsOfDashboard(dashboard_details), 1)

\* ------------------------------------------------- the run, stage by stage
\* DashboardServiceSource topology: the entity the sink returns for a chart request
\* is appended to context.charts
ChartEntities(requests) == [i \in 1..Len(requests) |-> [name |-> requests[i].name]]

\* the entity the sink returns for a data model request, appended to
\* context.dataModels; the entity at index bad comes back without an id
DataModelEntities(requests, bad) ==
    [i \in 1..Len(requests) |->
        [name |-> requests[i].name, displayName |-> requests[i].displayName,
         id |-> IF i = bad THEN None ELSE "dataModel:" \o requests[i].name]]

\* the entity the sink returns for the dashboard request, stored as context.dashboard
DashboardEntity(request) == [present |-> TRUE, name |-> request.name,
                             id |-> "dashboard:" \o request.name]

\* the dashboards the backend lists: dashboard i has id i
DashboardIds(first, last) == [i \in 1..(IF last < first THEN 0 ELSE last - first + 1) |-> first + i - 1]

\* client.fetch_total_dashboards()
fetch_total_dashboards(n) == n

\* client.fetch_dashboards(current_page, page_size)
fetch_dashboards(n, page, size) == DashboardIds(page * size + 1, Min(n, (page + 1) * size))

\* SupersetAPISource.get_dashboards_list, lines 73-75
ListBegin ==
    /\ variant = "api" /\ stage = "prepared"
    /\ current_page' = 0
    /\ total_dashboards' = fetch_total_dashboards(backendDashboards)
    /\ pageLog' = <<>>
    /\ dashPage' = <<>>
    /\ stage' = "listing"
    /\ UNCHANGED <<variant, cfg, backendCharts, backendDashboards, all_charts, total_charts,
                   yielded, dash, ctx, emitted, status, fetchLog, raised, probe>>

\* SupersetAPISource.get_dashboards_list, one iteration of the while loop up to the
\* first yield, lines 76-78
ListFetchPage ==
    /\ variant = "api" /\ stage = "listing" /\ dashPage = <<>>
    /\ LoopContinues(current_page, total_dashboards)
    /\ dashPage' = fetch_dashboards(backendDashboards, current_page, page_size)
    /\ pageLog' = Append(pageLog, current_page)
    /\ current_page' = current_page + 1
    /\ UNCHANGED <<variant, cfg, backendCharts, backendDashboards, total_dashboards,
                   all_charts, stage, total_charts, yielded, dash, ctx, emitted, status,
                   fetchLog, raised, probe>>

\* SupersetDBSource.get_dashboards_list, line 95: the FETCH_DASHBOARDS query
ListQuery ==
    /\ variant = "db" /\ stage = "prepared"
    /\ dashPage' = DashboardIds(1, backendDashboards)
    /\ stage' = "listing"
    /\ UNCHANGED <<variant, cfg, backendCharts, backendDashboards, total_dashboards,
                   all_charts, current_page, total_charts, pageLog, yielded, dash, ctx,
                   emitted, status, fetchLog, raised, probe>>

\* get_dashboards_list yields the next dashboard (api line 80, db line 97)
ListYield ==
    /\ stage = "listing" /\ dashPage # <<>>
    /\ \E chart_ids \in SeqsUpTo(1..MaxCharts, MaxDashCharts) :
           dash' = [present |-> TRUE, id |-> Head(dashPage), charts |-> chart_ids]
    /\ dashPage' = Tail(dashPage)
    /\ yielded' = yielded + 1
    /\ stage' = "charts"
    /\ UNCHANGED <<variant, cfg, backendCharts, backendDashboards, total_dashboards,
                   all_charts, current_page, total_charts, pageLog, ctx, emitted, status,
                   fetchLog, raised, probe>>

\* get_dashboards_list is exhausted: the run ends
ListEnd ==
    /\ stage = "listing" /\ dashPage = <<>>
    /\ variant = "api" => ~LoopContinues(current_page, total_dashboards)
    /\ stage' = "done"
    /\ UNCHANGED <<variant, cfg, backendCharts, backendDashboards, total_dashboards,
                   all_charts, current_page, total_charts, pageLog, dashPage, yielded, dash,
                   ctx, emitted, status, fetchLog, raised, probe>>

\* yield_dashboard_chart(dashboard_details)
yield_dashboard_chart ==
    /\ stage = "charts"
    /\ LET charts == ChartLoop(all_charts, GetChartsOfDashboard(dash), 1)
       IN /\ emitted' = [emitted EXCEPT !.charts = charts]
          /\ ctx' = [ctx EXCEPT !.charts = ChartEntities(charts)]
    /\ all_charts' = CacheAfterLookups(all_charts, GetChartsOfDashboard(dash))
    /\ stage' = "datamodels"
    /\ UNCHANGED <<variant, cfg, backendCharts, backendDashboards, total_dashboards,
                   current_page, total_charts, pageLog, dashPage, yielded, dash, status,
                   fetchLog, raised, probe>>

\* yield_datamodel(dashboard_details)
yield_datamodel ==
    /\ stage = "datamodels"
    /\ LET run == YieldDataModel(variant, cfg, all_charts, dash)
       IN /\ emitted' = [emitted EXCEPT !.dataModels = run.out]
          /\ status' = [filtered |-> status.filtered \o run.filtered,
                        failed |-> status.failed \o run.failed,
                        scanned |-> status.scanned \o run.scanned]
          /\ fetchLog' = run.log
          /\ raised' = IF run.exc = "none" THEN NoRaise
                       ELSE [exc |-> run.exc, stage |-> "yield_datamodel"]
          /\ stage' = IF run.exc = "none" THEN "dashboard" ELSE "aborted"
          /\ \E bad \in 0..Len(run.out) :
                 ctx' = [ctx EXCEPT !.dataModels = DataModelEntities(run.out, bad)]
    /\ all_charts' = CacheAfterLookups(all_charts, GetChartsOfDashboard(dash))
    /\ UNCHANGED <<variant, cfg, backendCharts, backendDashboards, total_dashboards,
                   current_page, total_charts, pageLog, dashPage, yielded, dash, probe>>

\* yield_dashboard(dashboard_details)
yield_dashboard ==
    /\ stage = "dashboard"
    /\ LET dashboard_request == DashboardRequest(dash, ctx.charts)
       IN /\ emitted' = [emitted EXCEPT !.dashboard = <<dashboard_request>>]
          /\ ctx' = [ctx EXCEPT !.dashboard = DashboardEntity(dashboard_request)]
    /\ stage' = "lineage"
    /\ UNCHANGED <<variant, cfg, backendCharts, backendDashboards, total_dashboards,
                   all_charts, current_page, total_charts, pageLog, dashPage, yielded, dash,
                   status, fetchLog, raised, probe>>

\* yield_dashboard_lineage(dashboard_details)
yield_dashboard_lineage ==
    /\ stage = "lineage"
    /\ LET run == YieldDashboardLineage(variant, cfg, all_charts, ctx, dash)
       IN /\ emitted' = [emitted EXCEPT !.lineage = run.out]
          /\ fetchLog' = run.log
          /\ raised' = IF run.exc = "none" THEN NoRaise
                       ELSE [exc |-> run.exc, stage |-> "yield_dashboard_lineage"]
          /\ stage' = IF run.exc = "none" THEN "lineaged" ELSE "aborted"
    /\ all_charts' = CacheAfterLookups(all_charts, GetChartsOfDashboard(dash))
    /\ UNCHANGED <<variant, cfg, backendCharts, backendDashboards, total_dashboards,
                   current_page, total_charts, pageLog, dashPage, yielded, dash, ctx,
                   status, probe>>

\* the stages of one dashboard are over: its requests are handed on, the context
\* of the dashboard is cleared, and get_dashboards_list is resumed
ListResume ==
    /\ stage = "lineaged"
    /\ stage' = "listing"
    /\ dash' = NoRecord
    /\ ctx' = EmptyContext
    /\ emitted' = EmptyEmitted
    /\ status' = EmptyStatus
    /\ fetchLog' = <<>>
    /\ UNCHANGED <<variant, cfg, backendCharts, backendDashboards, total_dashboards,
                   all_charts, current_page, total_charts, pageLog, dashPage, yielded,
                   raised, probe>>

\* ------------------------------------------------------- specifications
DbServiceNameLists == {<<>>, <<"mysql_prod", "pg_dw">>}

\* a full run against a small backend
Init ==
    /\ InitCommon
    /\ probe = NoProbe
    /\ cfg \in [includeDataModels : BOOLEAN, dbServiceNames : DbServiceNameLists]
    /\ \E kinds \in SeqsUpTo(ChartKinds, MaxCharts) : backendCharts = ChartListing(variant, kinds)
    /\ backendDashboards \in 0..MaxDashboards

Next ==
    \/ PrepareBegin \/ PrepareFetchPage \/ PrepareEnd \/ PrepareDB
    \/ ListBegin \/ ListFetchPage \/ ListQuery \/ ListYield \/ ListEnd \/ ListResume
    \/ yield_dashboard_chart \/ yield_datamodel \/ yield_dashboard
    \/ yield_dashboard_lineage

Spec == Init /\ [][Next]_vars

\* prepare on its own, against a backend that lists up to MaxTotal charts
InitPrepare ==
    /\ InitCommon
    /\ probe = NoProbe
    /\ cfg = [includeDataModels |-> TRUE, dbServiceNames |-> <<>>]
    /\ \E n \in 0..MaxTotal : backendCharts = ChartListing(variant, [i \in 1..n |-> "orders"])
    /\ backendDashboards = 0

NextPrepare == PrepareBegin \/ PrepareFetchPage \/ PrepareEnd \/ PrepareDB

SpecPrepare == InitPrepare /\ [][NextPrepare]_vars

\* a run of the API variant against a backend that lists up to MaxTotal charts and
\* as many dashboards; the run is sequential and goes on as long as it has a step
InitPaging ==
    /\ InitCommon
    /\ variant = "api"
    /\ probe = NoProbe
    /\ cfg = [includeDataModels |-> FALSE, dbServiceNames |-> <<>>]
    /\ \E n \in 0..MaxTotal :
         /\ backendCharts = ChartListing(variant, [i \in 1..n |-> "orders"])
         /\ backendDashboards = n

NextPaging ==
    \/ PrepareBegin \/ PrepareFetchPage \/ PrepareEnd
    \/ ListBegin \/ ListFetchPage \/ ListYield \/ ListEnd \/ ListResume
    \/ yield_dashboard_chart \/ yield_datamodel \/ yield_dashboard
    \/ yield_dashboard_lineage

SpecPaging == InitPaging /\ [][NextPaging]_vars /\ WF_vars(NextPaging)

\* the resolver on its own: one input, called up to MaxCalls times
DatasourceIds == {"10", "11", "12", "13", "14", "15", None}

TableRefs ==
    [present : {TRUE}, id : {1}, datasource_id : {"10"},
     table_name : {"orders", None}, table_schema : {"public", None},
     sqlalchemy_uri : {"mysql://host/sales", "mysql://host", "not a url", "", None}]

InitResolver ==
    /\ InitCommon
    /\ cfg = [includeDataModels |-> TRUE, dbServiceNames |-> <<>>]
    /\ backendCharts = <<>>
    /\ backendDashboards = 0
    /\ \E service \in DbServiceNames :
         \/ /\ variant = "api"
            /\ \E datasource_id \in DatasourceIds :
                 probe = [fn |-> "resolver", datasource_id |-> datasource_id,
                          chart_json |-> NoRecord, service |-> service, results |-> <<>>]
         \/ /\ variant = "db"
            /\ \E chart_json \in TableRefs :
                 probe = [fn |-> "resolver", datasource_id |-> None,
                          chart_json |-> chart_json, service |-> service, results |-> <<>>]

\* _get_datasource_fqn(datasource_id | chart_json, db_service_entity)
ResolverCall ==
    /\ probe.fn = "resolver"
    /\ Len(probe.results) < MaxCalls
    /\ probe' = [probe EXCEPT !.results =
                    Append(@, IF variant = "api"
                              THEN ApiGetDatasourceFqn(probe.datasource_id,
                                                       DbServiceEntity(probe.service))
                              ELSE DbGetDatasourceFqn(probe.chart_json,
                                                      DbServiceEntity(probe.service)))]
    /\ UNCHANGED <<variant, cfg, backendCharts, backendDashboards, total_dashboards,
                   all_charts, stage, current_page, total_charts, pageLog, dashPage, yielded,
                   dash, ctx, emitted, status, fetchLog, raised>>

NextResolver == ResolverCall

SpecResolver == InitResolver /\ [][NextResolver]_vars

\* get_column_info on its own: a datasource of up to MaxFields fields
FieldTypes == {"VARCHAR(45)", "geo??", "", None}

FieldsAt(i) ==
    [id : {ToString(i), None}, type : FieldTypes, column_name : {"col" \o ToString(i)},
     description : {None}]

DataSources ==
    UNION {{ds \in [1..k -> UNION {FieldsAt(i) : i \in 1..k}] :
                \A i \in 1..k : ds[i] \in FieldsAt(i)} : k \in 0..MaxFields}

InitColumns ==
    /\ InitCommon
    /\ cfg = [includeDataModels |-> TRUE, dbServiceNames |-> <<>>]
    /\ backendCharts = <<>>
    /\ backendDashboards = 0
    /\ \E data_source \in DataSources :
         probe = [fn |-> "columns", data_source |-> data_source, called |-> FALSE,
                  result |-> <<>>]

\* get_column_info(data_source)
ColumnsCall ==
    /\ probe.fn = "columns" /\ ~probe.called
    /\ probe' = [probe EXCEPT !.called = TRUE, !.result = get_column_info(probe.data_source)]
    /\ UNCHANGED <<variant, cfg, backendCharts, backendDashboards, total_dashboards,
                   all_charts, stage, current_page, total_charts, pageLog, dashPage, yielded,
                   dash, ctx, emitted, status, fetchLog, raised>>

NextColumns == ColumnsCall

SpecColumns == InitColumns /\ [][NextColumns]_vars

\* ----------------------------------------------------------- properties
\* the chart record the cache holds for the i-th chart id of the current dashboard
ChartAt(i) == CacheGet(all_charts, dash.charts[i])

Hit(i) == ChartAt(i).present

\* yield_datamodel has run for the current dashboard (to its end, or to the
\* exception that ended it)
DataModelsRan == dash.present /\ stage \in {"dashboard", "lineage", "lineaged", "aborted"}

\* the table name yield_datamodel tests against the filter for the i-th chart id
TableNameAt(i) ==
    IF variant = "api" THEN fetch_datasource(ChartAt(i).datasource_id).val.result.table_name
    ELSE ChartAt(i).table_name

\* the backend step yield_datamodel makes for the i-th chart id before its try
\* block fails or finds no record
Escapes(i) ==
    /\ Hit(i)
    /\ IF variant = "api"
       THEN \/ fetch_datasource(ChartAt(i).datasource_id).exc # "none"
            \/ ~fetch_datasource(ChartAt(i).datasource_id).val.present
       ELSE get_column_list(ChartAt(i).table_name).exc # "none"

\* the data model of the i-th chart id cannot be constructed: its name is missing
ConstructionFails(i) ==
    /\ Hit(i) /\ ~Escapes(i)
    /\ IF variant = "api" THEN fetch_datasource(ChartAt(i).datasource_id).val.id = None
       ELSE ChartAt(i).datasource_id = None

\* the chart ids yield_datamodel gets to: those up to the first one whose backend
\* step raises
Processed ==
    {i \in 1..Len(dash.charts) : \A j \in 1..(i - 1) : ~Escapes(j)}

\* C1: in yield_datamodel no CreateDashboardDataModelRequest is emitted for a
\* datasource whose table name matches the data-model exclude filter, and no
\* data-model-to-dashboard lineage edge is emitted for it.
C1_FilteredNeverEmitted ==
    /\ \A i \in 1..Len(emitted.dataModels) :
           ~filter_by_datamodel(dataModelFilterPattern, emitted.dataModels[i].displayName)
    /\ \A j \in 1..Len(emitted.lineage) : \A i \in 1..Len(ctx.dataModels) :
           (/\ emitted.lineage[j].fromType = "dashboardDataModel"
            /\ emitted.lineage[j].fromEntity = ctx.dataModels[i].id)
           => ~filter_by_datamodel(dataModelFilterPattern, ctx.dataModels[i].displayName)

\* C2: the charts list of the CreateDashboardRequest is exactly the list of chart
\* FQNs (service name, chart name) of the charts recorded in context.charts, one
\* per recorded chart, and holds no FQN of a chart id that yield_dashboard_chart
\* skipped because the id was absent from the chart cache.
C2_DashboardChartsFromContext ==
    emitted.dashboard # <<>> =>
        LET request == emitted.dashboard[1] IN
        /\ Len(request.charts) = Len(ctx.charts)
        /\ Len(request.charts) = Len(emitted.charts)
        /\ \A i \in 1..Len(ctx.charts) :
               request.charts[i] = DashboardServiceName \o "." \o ctx.charts[i].name
        /\ \A i \in 1..Len(dash.charts) :
               ~Hit(i) => (DashboardServiceName \o "." \o ToString(dash.charts[i]))
                              \notin Range(request.charts)

\* a dashboard was emitted with a chart reference and with a skipped chart id
C2_Witness ==
    /\ emitted.dashboard # <<>>
    /\ Len(emitted.dashboard[1].charts) >= 1
    /\ \E i \in 1..Len(dash.charts) : ~Hit(i)

\* a link of the resolver's lookup chain is missing for the input of the probe:
\* no datasource record, no database record, no default database name (no
\* parameters, or no connection string) and no override of the service to supply
\* it, or a connection string that does not parse
MissingLink ==
    IF variant = "api"
    THEN LET fetched == fetch_datasource(probe.datasource_id) IN
         /\ fetched.exc = "none"
         /\ \/ ~fetched.val.present
            \/ LET got == fetch_database(fetched.val.result.database.id) IN
               /\ got.exc = "none"
               /\ \/ ~got.val.present
                  \/ /\ ~got.val.result.parameters.present
                     /\ DbServiceEntity(probe.service).databaseName = None
    ELSE \/ /\ ~Truthy(probe.chart_json.sqlalchemy_uri)
            /\ DbServiceEntity(probe.service).databaseName = None
         \/ /\ Truthy(probe.chart_json.sqlalchemy_uri)
            /\ make_url(probe.chart_json.sqlalchemy_uri).exc # "none"

\* C3: _get_datasource_fqn returns None and does not raise whenever a link of the
\* lookup chain is missing.
C3_MissingLinkGivesNone ==
    (probe.fn = "resolver" /\ MissingLink) =>
        \A i \in 1..Len(probe.results) :
            probe.results[i].exc = "none" /\ probe.results[i].val = None

\* C4: when constructing the data model of one chart fails, the failure is caught
\* at that chart, exactly one failed notification is reported for it, no DataModel
\* request is emitted for it, and the charts after it are still processed.
C4_ConstructionFailureIsolated ==
    (DataModelsRan /\ cfg.includeDataModels) =>
        /\ Len(status.failed) = Cardinality({i \in Processed : ConstructionFails(i)})
        /\ \A k \in 1..Len(status.failed) :
               /\ status.failed[k].error = "ValidationError"
               /\ \E i \in Processed :
                      ConstructionFails(i) /\ status.failed[k].table_name = TableNameAt(i)
        /\ Len(emitted.dataModels) =
               Cardinality({i \in Processed : Hit(i) /\ ~Escapes(i) /\ ~ConstructionFails(i)})
        /\ \A i \in Processed : ConstructionFails(i) =>
               \A m \in 1..Len(emitted.dataModels) :
                   emitted.dataModels[m].displayName # TableNameAt(i)
        /\ (\A i \in 1..Len(dash.charts) : ~Escapes(i)) => raised.stage # "yield_datamodel"

\* the data model of the first chart could not be constructed, the failure was
\* reported, and the data model of the chart after it was emitted
C4_Witness ==
    /\ stage = "dashboard" /\ cfg.includeDataModels
    /\ Len(dash.charts) = MaxDashCharts
    /\ ConstructionFails(1)
    /\ Len(status.failed) = 1
    /\ Len(emitted.dataModels) >= 1

\* C5: no error raised while processing one chart inside yield_datamodel escapes
\* to the caller: when the datasource fetch (api) or the column-listing query (db)
\* fails or returns no record, yield_datamodel does not raise, that chart is
\* skipped and the remaining charts are still processed.
C5_YieldDataModelNeverRaises ==
    (DataModelsRan /\ cfg.includeDataModels) =>
        /\ raised.stage # "yield_datamodel"
        /\ Len(emitted.dataModels) + Len(status.failed) =
               Cardinality({i \in 1..Len(dash.charts) : Hit(i) /\ ~Escapes(i)})

\* the fields of the probe's datasource for which Column(...) can be built
BuildableFields == SelectSeq(probe.data_source, LAMBDA f : f.id # None)

\* C6: get_column_info returns exactly one Column per input field, in input order;
\* a field with an unparsable or absent type string carries the catch-all data
\* type, and a failure on one field never reduces the number of columns.
C6_OneColumnPerField ==
    (probe.fn = "columns" /\ probe.called) =>
        /\ Len(probe.result) = Len(probe.data_source)
        /\ \A i \in 1..Len(probe.data_source) :
               /\ probe.result[i].displayName = probe.data_source[i].column_name
               /\ probe.data_source[i].type \in {"geo??", "", None}
                      => probe.result[i].dataType = "UNKNOWN"

\* C6 as amended: get_column_info returns, in input order, exactly one Column per
\* input field whose Column can be constructed; a field with an unparsable or
\* absent type string carries the catch-all data type and no length; a field whose
\* construction raises is left out, and the fields after it are still converted.
C6_OneColumnPerBuildableField ==
    (probe.fn = "columns" /\ probe.called) =>
        /\ Len(probe.result) = Len(BuildableFields)
        /\ \A i \in 1..Len(BuildableFields) :
               /\ probe.result[i].name = BuildableFields[i].id
               /\ probe.result[i].displayName = BuildableFields[i].column_name
               /\ probe.result[i].dataTypeDisplay = BuildableFields[i].type
               /\ BuildableFields[i].type \in {"geo??", "", None}
                      => /\ probe.result[i].dataType = "UNKNOWN"
                         /\ probe.result[i].dataLength = None
               /\ BuildableFields[i].type = "VARCHAR(45)"
                      => /\ probe.result[i].dataType = "VARCHAR"
                         /\ probe.result[i].dataLength = "45"

\* three fields went in: the first cannot be built, the second has no type string,
\* the third has an unparsable one; two columns came out
C6_Witness ==
    /\ probe.fn = "columns" /\ probe.called
    /\ Len(probe.data_source) = 3
    /\ probe.data_source[1].id = None
    /\ probe.data_source[2].id # None /\ probe.data_source[2].type = None
    /\ probe.data_source[3].id # None /\ probe.data_source[3].type = "geo??"
    /\ Len(probe.result) = 2

\* yield_dashboard_lineage has run for the current dashboard (to its end, or to
\* the exception that ended it)
LineageRan ==
    /\ dash.present
    /\ \/ stage = "lineaged"
       \/ stage = "aborted" /\ raised.stage = "yield_dashboard_lineage"

DataModelEdges == SelectSeq(emitted.lineage, LAMBDA e : e.fromType = "dashboardDataModel")

\* the data models of the context for which the lineage request can be built
LinkableDataModels == SelectSeq(ctx.dataModels, LAMBDA d : d.id # None)

\* C7: yield_datamodel_dashboard_lineage emits exactly one lineage edge per data
\* model of context.dataModels, from that data model to context.dashboard; when
\* building the edge of one data model raises, that edge is left out and the edges
\* of the remaining data models are still emitted; and these edges are emitted
\* before any table lineage edge of the configured database services.
C7_DataModelLineageFirst ==
    LineageRan =>
        /\ Len(DataModelEdges) = Len(LinkableDataModels)
        /\ \A i \in 1..Len(LinkableDataModels) :
               /\ DataModelEdges[i].fromEntity = LinkableDataModels[i].id
               /\ DataModelEdges[i].toEntity = ctx.dashboard.id
        /\ \A i \in 1..Len(emitted.lineage) : \A j \in 1..Len(emitted.lineage) :
               (emitted.lineage[i].fromType = "table"
                /\ emitted.lineage[j].fromType = "dashboardDataModel") => j < i

\* data-model edges and table edges were emitted for a dashboard one of whose
\* data models could not be linked
C7_Witness ==
    /\ stage = "lineaged"
    /\ Len(ctx.dataModels) >= 2
    /\ Len(LinkableDataModels) = Len(ctx.dataModels) - 1
    /\ Len(DataModelEdges) >= 1
    /\ \E j \in 1..Len(emitted.lineage) : emitted.lineage[j].fromType = "table"

\* the chart has no datasource reference for lineage
NoDatasourceRef(chart_json) ==
    IF variant = "api" THEN ~Truthy(chart_json.datasource_id)
    ELSE ~Truthy(chart_json.table_name)

\* C8: for every (chart, database service) pair for which datasource resolution
\* yields no FQN, no table lineage edge is emitted and no error is raised; and for
\* a chart without datasource_id (api) or table_name (db)
\* _get_datasource_fqn_for_lineage returns None without calling the resolver.
C8_NoFqnNoEdge ==
    LineageRan =>
        /\ \A k \in 1..Len(fetchLog) :
               NoDatasourceRef(CacheGet(all_charts, fetchLog[k].chart))
                   => /\ fetchLog[k].calls = <<>>
                      /\ fetchLog[k].fqn = None
                      /\ fetchLog[k].exc = "none"
        /\ Cardinality({j \in 1..Len(emitted.lineage) : emitted.lineage[j].fromType = "table"})
               = Cardinality({k \in 1..Len(fetchLog) :
                                  fetchLog[k].exc = "none" /\ fetchLog[k].fqn # None})
        /\ \A j \in 1..Len(emitted.lineage) :
               emitted.lineage[j].fromType = "table"
                   => \E k \in 1..Len(fetchLog) : fetchLog[k].fqn = emitted.lineage[j].fromEntity
        /\ (\A k \in 1..Len(fetchLog) : fetchLog[k].exc = "none") => raised = NoRaise

\* lineage ran over a chart without a datasource reference and over a chart whose
\* resolution was tried and gave no FQN for one service and an FQN for another
C8_Witness ==
    /\ stage = "lineaged"
    /\ \E k \in 1..Len(fetchLog) : NoDatasourceRef(CacheGet(all_charts, fetchLog[k].chart))
    /\ \E k \in 1..Len(fetchLog) : fetchLog[k].calls # <<>> /\ fetchLog[k].fqn = None
    /\ \E j \in 1..Len(emitted.lineage) : emitted.lineage[j].fromType = "table"

\* C9: after prepare the chart cache maps the id of every chart the backend lists
\* to that chart's record and holds no other id: for every total count served in
\* pages of 25 (api), for every row of the all-charts query (db).
C9_CacheHoldsEveryChart ==
    stage = "prepared" =>
        /\ DOMAIN all_charts = {backendCharts[i].id : i \in 1..Len(backendCharts)}
        /\ \A i \in 1..Len(backendCharts) : all_charts[backendCharts[i].id] = backendCharts[i]

\* prepare of the API variant ended after three pages
C9_Witness ==
    /\ stage = "prepared" /\ variant = "api"
    /\ Len(backendCharts) >= 2 * page_size
    /\ Len(pageLog) = 3
    /\ Cardinality(DOMAIN all_charts) = Len(backendCharts)

\* C10: the chart cache is written only by prepare: every step of the run after
\* prepare leaves all_charts as it is.
C10_CacheWrittenOnlyByPrepare ==
    [][stage \notin {"start", "prepare"} => all_charts' = all_charts]_vars

\* the stages of a dashboard ran over charts found in a cache of several charts
C10_Witness ==
    /\ stage = "lineaged"
    /\ Cardinality(DOMAIN all_charts) >= 2
    /\ Len(dash.charts) >= 1 /\ Hit(1)
    /\ all_charts = backendCharts

\* ------------------------------------------------------------------ C11
\* the chart stage of the dashboard being processed has run
ChartsRan == dash.present /\ stage \in {"datamodels", "dashboard", "lineage", "lineaged", "aborted"}

\* the dashboard's chart ids the cache holds, in the dashboard's order
CachedChartIds == SelectSeq(dash.charts, LAMBDA c : CacheGet(all_charts, c).present)

\* C11: yield_dashboard_chart emits exactly one CreateChartRequest for each chart id
\* of the dashboard that the cache holds, in the dashboard's chart-id order, named
\* after the cached chart's id; a chart id the cache does not hold gives no request,
\* raises nothing, and the chart ids after it are still processed.
C11_OneChartRequestPerCachedId ==
    ChartsRan =>
        /\ Len(emitted.charts) = Len(CachedChartIds)
        /\ \A k \in 1..Len(CachedChartIds) :
               /\ emitted.charts[k].name = ToString(CacheGet(all_charts, CachedChartIds[k]).id)
               /\ emitted.charts[k].name = ToString(CachedChartIds[k])
        /\ raised.stage # "yield_dashboard_chart"
        /\ stage = "datamodels" => raised = NoRaise

\* a dashboard whose first chart id misses the cache and whose second one hits:
\* the hit after the miss got its request
C11_Witness ==
    /\ ChartsRan
    /\ Len(dash.charts) = 2
    /\ ~Hit(1) /\ Hit(2)
    /\ Len(emitted.charts) = 1
    /\ emitted.charts[1].name = ToString(dash.charts[2])

\* ------------------------------------------------------------------ C12
\* the database-name override the probed database service declares, None if none
Override == DbServiceEntity(probe.service).databaseName

\* the default database name the backend reports for the probed input: known when
\* the records of the lookup chain exist (api) or the connection string is absent
\* or parses (db); its name is None when the backend reports no default
BackendDefault ==
    IF variant = "api"
    THEN LET fetched == fetch_datasource(probe.datasource_id) IN
         IF fetched.exc # "none" \/ ~fetched.val.present THEN [known |-> FALSE, name |-> None]
         ELSE LET got == fetch_database(fetched.val.result.database.id) IN
              IF got.exc # "none" \/ ~got.val.present THEN [known |-> FALSE, name |-> None]
              ELSE [known |-> TRUE,
                    name |-> IF got.val.result.parameters.present
                             THEN got.val.result.parameters.database ELSE None]
    ELSE IF ~Truthy(probe.chart_json.sqlalchemy_uri) THEN [known |-> TRUE, name |-> None]
         ELSE LET sqa_url == make_url(probe.chart_json.sqlalchemy_uri) IN
              IF sqa_url.exc # "none" THEN [known |-> FALSE, name |-> None]
              ELSE [known |-> TRUE, name |-> sqa_url.val.database]

\* schema and table name of the probed input, where the default is known
ProbedTable ==
    IF variant = "api"
    THEN LET result == fetch_datasource(probe.datasource_id).val.result
         IN [schema |-> result.table_schema, table |-> result.table_name]
    ELSE [schema |-> probe.chart_json.table_schema, table |-> probe.chart_json.table_name]

\* the fqn.build calls of one resolver call
BuildCalls(result) == SelectSeq(result.log, LAMBDA e : e[1] = "fqn.build")

\* C12: the database name the resolver hands to fqn.build is the override of the
\* database service whenever the service declares one, for every default the
\* backend reports and also when it reports none; it is the backend's default
\* only when the service declares no override.
C12_OverrideWins ==
    probe.fn = "resolver" =>
        \A i \in 1..Len(probe.results) :
            LET builds == BuildCalls(probe.results[i]) IN
            /\ \A k \in 1..Len(builds) :
                   /\ BackendDefault.known
                   /\ Override # None => builds[k][3] = Override
                   /\ Override = None => builds[k][3] = BackendDefault.name
            /\ BackendDefault.known =>
                   /\ Len(builds) = 1
                   /\ probe.results[i].exc = "none"
                   /\ (Override # None /\ ProbedTable.schema # None /\ ProbedTable.table # None) =>
                          probe.results[i].val =
                              probe.service \o "." \o Override \o "." \o ProbedTable.schema
                                            \o "." \o ProbedTable.table

\* the resolver was called for a service that declares an override while the
\* backend reports no default, and built the FQN with the override
C12_Witness ==
    /\ probe.fn = "resolver"
    /\ Override # None
    /\ BackendDefault.known /\ BackendDefault.name = None
    /\ Len(probe.results) >= 1
    /\ Len(BuildCalls(probe.results[1])) = 1
    /\ BuildCalls(probe.results[1])[1][3] = Override
    /\ probe.results[1].val = probe.service \o "." \o Override \o ".public.orders"

\* ------------------------------------------------------------------ C13
\* a step that is one more call of the resolver
ResolverCalled == probe.fn = "resolver" /\ Len(probe.results') = Len(probe.results) + 1

PagesFor(n) == [i \in 1..(n \div page_size + 1) |-> i - 1]

\* the pages fetched so far are 0, 1, ..., current_page - 1, one after the other
FetchedInOrder == pageLog = [i \in 1..current_page |-> i - 1]

\* get_dashboards_list is running or suspended at a yield
Listing == stage \in {"listing", "charts", "datamodels", "dashboard", "lineage", "lineaged"}

C14_PagesAndYields ==
    variant = "api" =>
        /\ stage = "prepare" =>
               FetchedInOrder /\ Len(pageLog) <= Len(PagesFor(Len(backendCharts)))
        /\ stage = "prepared" => pageLog = PagesFor(Len(backendCharts))
        /\ Listing =>
               /\ FetchedInOrder /\ Len(pageLog) <= Len(PagesFor(backendDashboards))
               /\ yielded + Len(dashPage) = Min(backendDashboards, current_page * page_size)
               /\ \A k \in 1..Len(dashPage) : dashPage[k] = yielded + k
               /\ dash.present => dash.id = yielded
        /\ stage = "done" =>
               /\ pageLog = PagesFor(backendDashboards)
               /\ yielded = backendDashboards

\* C14: both pagination loops of the API variant end for every total N the backend
\* reports, after exactly floor(N / 25) + 1 page fetches made one after the other
\* for the pages 0, 1, ..., floor(N / 25), so with one fetch past the last page
\* that holds anything when N is 0 or a multiple of 25; the dashboards of the
\* fetched pages are yielded once each, in page order.
C14_PaginationTerminates ==
    /\ []C14_PagesAndYields
    /\ <>(stage = "prepared")
    /\ <>(stage = "done")

\* a run over two full pages of dashboards ended: three pages were fetched, the
\* last of them empty, and all fifty dashboards were yielded
C14_Witness ==
    /\ stage = "done" /\ variant = "api"
    /\ backendDashboards = 2 * page_size
    /\ pageLog = <<0, 1, 2>>
    /\ fetch_dashboards(backendDashboards, 2, page_size) = <<>>
    /\ yielded = backendDashboards

====
